---- MODULE Spec2Model ----
\* Call-flow orchestration of call-congress (src/app.py): the webhook handlers,
\* the parameter codec parse_params, and the telephony provider that follows
\* the continuation URLs the handlers emit.
EXTENDS Integers, Sequences, FiniteSets, TLC

VARIABLES
    req,      \* the request about to be handled (route + request.values), or NoReq
    entry,    \* TRUE while req is the first request of the session
    resp,     \* the response of the handler that ran last
    handled,  \* the request the handler that ran last was given, or NoReq
    parsed,   \* the params parse_params returned to that handler
    resolved, \* TRUE once representative ids were resolved from a zip code
    log,      \* records written by log_call, oldest first
    placed,   \* outbound calls placed through TW_CLIENT.calls.create
    hist,     \* the call-flow states visited so far (block intro, legs, terminal)
    reprompts, \* number of invalid-zip re-prompts emitted so far (saturating)
    directory, \* the campaign definitions held by data, shared by all calls
    others     \* number of webhooks of another call handled in between

vars == <<req, entry, handled, resp, parsed, resolved, log, placed, hist, reprompts,
          directory, others>>

\* ---------------------------------------------------------------- bounds

\* longest repIds list a client request carries
MaxReps == 2
\* the re-prompt counter saturates here
MaxReprompts == 2
\* call_index values a client request carries: -1 .. MaxIndex
MaxIndex == 2
\* webhooks of another call handled while this call is in progress
MaxOtherWebhooks == 1

\* ---------------------------------------------------------------- values

\* Python's None, and the value request.values.get gives for an absent key
None == "None"
NoReq == [route |-> "none"]

\* representative ids a client may send
RepIdUniverse == {"A", "B", "S_SPECIAL_CALL_"}
\* bioguide ids of data.legislators
Roster == {"A", "B", "C"}

RECURSIVE SeqsUpTo(_, _)
SeqsUpTo(S, n) ==
    IF n = 0 THEN {<<>>}
    ELSE LET shorter == SeqsUpTo(S, n - 1)
         IN  shorter \cup {Append(s, x) : s \in {t \in shorter : Len(t) = n - 1}, x \in S}

\* ---------------------------------------------------------------- dicts

\* dict.get(key, default) / request.values.get(key, default)
Get(d, key, default) == IF key \in DOMAIN d THEN d[key] ELSE default

\* request.values.getlist(key)
GetList(d, key) == IF key \in DOMAIN d THEN d[key] ELSE <<>>

\* del d[key]
Del(d, key) == [k \in (DOMAIN d) \ {key} |-> d[k]]

\* d[key] = value
Put(d, key, value) == (key :> value) @@ d

\* Python truthiness of a string-or-None value
Truthy(v) == v # None /\ v # ""

\* seq[i] with Python's indexing: negative i counts from the end
InRange(seq, i) == -Len(seq) <= i /\ i < Len(seq)
PyIndex(seq, i) == IF i >= 0 THEN seq[i + 1] ELSE seq[Len(seq) + i + 1]

Range(seq) == {seq[k] : k \in 1..Len(seq)}

\* ---------------------------------------------------------------- campaign directory

\* data.get_campaign: the campaign definitions of the directory, each a dict
\* whose optional keys (repIds, random_choice, voted_with_list,
\* skip_star_confirm, msg_special_call_intro) are present or not. A repIds
\* value is a string ([str |-> id]) or a list ([list |-> ids]). An unknown id
\* gives a falsy result.
NoCampaign == [known |-> FALSE]

Campaigns == [
    default |-> [known |-> TRUE, id |-> "default", numbers |-> <<"N1">>],
    fixed1  |-> [known |-> TRUE, id |-> "fixed1", numbers |-> <<"N1">>,
                 repIds |-> [str |-> "A"],
                 voted_with_list |-> <<"A">>,
                 msg_special_call_intro |-> "msg_special_call_intro"],
    fixedL  |-> [known |-> TRUE, id |-> "fixedL", numbers |-> <<"N1">>,
                 repIds |-> [list |-> <<"B", "SPECIAL_CALL_S">>],
                 skip_star_confirm |-> TRUE],
    random  |-> [known |-> TRUE, id |-> "random", numbers |-> <<"N1">>,
                 repIds |-> [list |-> <<"B", "A">>],
                 random_choice |-> <<"A", "B", "C">>]
]

CampaignIds == DOMAIN Campaigns

get_campaign(campaignId) ==
    IF campaignId \in DOMAIN directory THEN directory[campaignId] ELSE NoCampaign

\* data.locate_member_ids: zip code -> ordered representative ids, the same
\* for the same inputs; empty when the zip code resolves to nobody.
ZipTable == [Z1 |-> <<"C">>, Z2 |-> <<"B", "C">>]

locate_member_ids(zipcode, campaign) ==
    IF zipcode \in DOMAIN ZipTable THEN ZipTable[zipcode] ELSE <<>>

\* ---------------------------------------------------------------- parse_params

\* the (None, None) result
NoParams == [isNone |-> TRUE]

\* lines 67-72: the params dict read from the request values
request_params(r) ==
    [userPhone  |-> Get(r.values, "userPhone", None),
     campaignId |-> Get(r.values, "campaignId", "default"),
     zipcode    |-> Get(r.values, "zipcode", None),
     repIds     |-> GetList(r.values, "repIds")]

\* campaign.get('repIds', None) is truthy
HasFixedRepIds(campaign) ==
    /\ "repIds" \in DOMAIN campaign
    /\ IF "str" \in DOMAIN campaign.repIds
       THEN campaign.repIds.str # ""
       ELSE campaign.repIds.list # <<>>

\* lines 80-85 without the isinstance branch: a scalar id is not taken over
apply_campaign_repIds_listonly(params, campaign) ==
    IF HasFixedRepIds(campaign) /\ "list" \in DOMAIN campaign.repIds
    THEN [params EXCEPT !.repIds = campaign.repIds.list]
    ELSE params

\* lines 80-85: repIds fixed by the campaign
apply_campaign_repIds(params, campaign) ==
    IF HasFixedRepIds(campaign)
    THEN IF "str" \in DOMAIN campaign.repIds
         THEN [params EXCEPT !.repIds = <<campaign.repIds.str>>]
         ELSE [params EXCEPT !.repIds = campaign.repIds.list]
    ELSE params

\* lines 87-90 without the del of line 94
apply_zipcode_keeps(params, campaign) ==
    IF Truthy(params.zipcode)
    THEN [params EXCEPT !.repIds = locate_member_ids(params.zipcode, campaign)]
    ELSE params

\* lines 87-94: repIds located by zip code, the zip code deleted
apply_zipcode(params, campaign) ==
    IF Truthy(params.zipcode)
    THEN Del([params EXCEPT !.repIds = locate_member_ids(params.zipcode, campaign)],
             "zipcode")
    ELSE params

\* lines 96-98 drawing only when no repIds are known yet
apply_random_choice_ifempty(params, campaign, pick) ==
    IF "random_choice" \in DOMAIN campaign /\ params.repIds = <<>>
    THEN [params EXCEPT !.repIds = <<pick>>]
    ELSE params

\* lines 96-98: one id drawn from the random_choice pool; pick is the draw
apply_random_choice(params, campaign, pick) ==
    IF "random_choice" \in DOMAIN campaign
    THEN [params EXCEPT !.repIds = <<pick>>]
    ELSE params

\* the values random.choice(campaign['random_choice']) can return
RandomPicks(campaign) ==
    IF campaign.known /\ "random_choice" \in DOMAIN campaign
    THEN Range(campaign.random_choice)
    ELSE {None}

\* parse_params without the early return of lines 77-78
parse_params_keeps(r, pick) ==
    [params   |-> request_params(r),
     campaign |-> get_campaign(request_params(r).campaignId)]

\* lines 66-100
parse_params(r, pick) ==
    LET params   == request_params(r)
        campaign == get_campaign(params.campaignId)
    IN  IF ~campaign.known
        THEN [params |-> NoParams, campaign |-> NoCampaign]
        ELSE [params |-> apply_random_choice(
                             apply_zipcode(
                                 apply_campaign_repIds(params, campaign),
                                 campaign),
                             campaign, pick),
              campaign |-> campaign]

\* the draws parse_params can make on request r
PicksFor(r) == RandomPicks(get_campaign(request_params(r).campaignId))

\* ---------------------------------------------------------------- instruction documents

\* url_for(route, **kwds): the continuation URL. A key whose value is None or
\* an empty list leaves no query parameter; the next request reads the rest
\* back through request.values.
NoQueryParam(key, value) ==
    IF key = "repIds" THEN value = <<>>
    ELSE IF key = "call_index" THEN FALSE
    ELSE value = None

url_for(route, kwds) ==
    [route  |-> route,
     values |-> [k \in {j \in DOMAIN kwds : ~NoQueryParam(j, kwds[j])} |-> kwds[k]]]

\* play_or_say: the message template of the campaign, rendered with kwds
\* (played when it renders to a URL, said otherwise)
play_or_say(doc, msg_template, kwds) ==
    Append(doc, [verb |-> "say", msg |-> msg_template, kwds |-> kwds])

NoKwds == [none |-> TRUE]

Ok(doc) == [status |-> 200, doc |-> doc]
\* abort(404)
Abort404 == [status |-> 404, doc |-> <<>>]
\* an exception no handler catches
Error500 == [status |-> 500, doc |-> <<>>]
\* no handler has run yet
NoResp == [status |-> 0, doc |-> <<>>]

\* what a handler leaves behind: its response, the params parse_params gave
\* it, the records it logged, the calls it placed and the call-flow states it entered
Outcome(response, params, logged, calls, events) ==
    [resp |-> response, params |-> params, logged |-> logged,
     calls |-> calls, events |-> events]

Aborted == Outcome(Abort404, NoParams, <<>>, <<>>, <<>>)

\* lines 111-116 with the gather pointed at make_calls
zip_gather_to_calls(doc, params, campaign) ==
    Ok(Append(doc, [verb |-> "gather", numDigits |-> 5,
                    action |-> url_for("make_calls", params),
                    msg |-> "msg_ask_zip"]))

\* lines 111-116
zip_gather(doc, params, campaign) ==
    Ok(Append(doc, [verb |-> "gather", numDigits |-> 5,
                    action |-> url_for("zip_parse", params),
                    msg |-> "msg_ask_zip"]))

\* lines 103-108
intro_zip_gather(params, campaign) ==
    zip_gather(play_or_say(<<>>, "msg_intro", NoKwds), params, campaign)

\* lines 119-134
make_calls(params, campaign) ==
    LET n_reps == Len(params.repIds)
        doc    == play_or_say(<<>>, "msg_call_block_intro",
                              [n_reps |-> n_reps, many_reps |-> n_reps > 1])
    IN  Outcome(Ok(Append(doc, [verb |-> "redirect",
                                url |-> url_for("make_single_call",
                                                Put(params, "call_index", 0))])),
                params, <<>>, <<>>,
                <<[st |-> "CallBlockIntro", n |-> n_reps, ids |-> params.repIds]>>)

\* lines 137-144
handle_make_calls(r, pick) ==
    LET pp == parse_params(r, pick)
    IN  IF pp.params = NoParams \/ ~pp.campaign.known
        THEN Aborted
        ELSE make_calls(pp.params, pp.campaign)

\* str.split(sep): the pieces of the text s (a sequence of characters)
\* between the separators; cur is the piece being read, acc the pieces read
RECURSIVE SplitFrom(_, _, _, _)
SplitFrom(s, sep, cur, acc) ==
    IF s = <<>> THEN Append(acc, cur)
    ELSE IF Head(s) = sep
    THEN SplitFrom(Tail(s), sep, <<>>, Append(acc, cur))
    ELSE SplitFrom(Tail(s), sep, Append(cur, Head(s)), acc)

Split(s, sep) == SplitFrom(s, sep, <<>>, <<>>)

\* str.strip(): without the blanks at either end
RECURSIVE Strip(_)
Strip(s) ==
    IF s = <<>> THEN s
    ELSE IF Head(s) = " " THEN Strip(Tail(s))
    ELSE IF s[Len(s)] = " " THEN Strip(SubSeq(s, 1, Len(s) - 1))
    ELSE s

\* line 179: err.msg.split(':')[1].strip(); the segments are counted from 0
error_message(msg) == Strip(Split(msg, ":")[2])

\* lines 147-182. provider is what TW_CLIENT.calls.create does: it returns a
\* call with a status, or raises TwilioRestException with a message text.
call_user(r, pick, provider) ==
    LET pp == parse_params(r, pick)
        params == pp.params
        call == [to |-> params.userPhone,
                 from_ |-> pp.campaign.numbers[1],
                 url |-> url_for("connection", params),
                 status_callback |-> url_for("call_complete_status", params),
                 outcome |-> provider]
    IN  IF pp.params = NoParams \/ ~pp.campaign.known
        THEN Aborted
        ELSE IF "status" \in DOMAIN provider
        THEN Outcome([status |-> IF provider.status # "failed" THEN 200 ELSE 500,
                      doc |-> <<>>,
                      json |-> [message |-> provider.status]],
                     params, <<>>, <<call>>, <<>>)
        ELSE IF Len(Split(provider.err, ":")) < 2
        THEN Outcome(Error500, params, <<>>, <<call>>, <<>>)
        ELSE Outcome([status |-> 200, doc |-> <<>>,
                      json |-> [message |-> error_message(provider.err)]],
                     params, <<>>, <<call>>, <<>>)

\* connection taking the confirmation for granted in every campaign
connection_unconfirmed(r, pick) ==
    LET pp == parse_params(r, pick)
        params == pp.params
        intro == play_or_say(<<>>, "msg_intro", NoKwds)
    IN  IF pp.params = NoParams \/ ~pp.campaign.known
        THEN Aborted
        ELSE IF params.repIds # <<>>
        THEN IF TRUE
             THEN Outcome(Ok(Append(intro, [verb |-> "redirect",
                                            url |-> url_for("make_calls", params)])),
                          params, <<>>, <<>>, <<>>)
             ELSE Outcome(Ok(Append(intro, [verb |-> "gather", numDigits |-> 1,
                                            action |-> url_for("make_calls", params),
                                            msg |-> "msg_intro_confirm"])),
                          params, <<>>, <<>>, <<>>)
        ELSE Outcome(intro_zip_gather(params, pp.campaign), params, <<>>, <<>>, <<>>)

\* lines 185-219
connection(r, pick) ==
    LET pp == parse_params(r, pick)
        params == pp.params
        intro == play_or_say(<<>>, "msg_intro", NoKwds)
    IN  IF pp.params = NoParams \/ ~pp.campaign.known
        THEN Aborted
        ELSE IF params.repIds # <<>>
        THEN IF Get(pp.campaign, "skip_star_confirm", FALSE)
             THEN Outcome(Ok(Append(intro, [verb |-> "redirect",
                                            url |-> url_for("make_calls", params)])),
                          params, <<>>, <<>>, <<>>)
             ELSE Outcome(Ok(Append(intro, [verb |-> "gather", numDigits |-> 1,
                                            action |-> url_for("make_calls", params),
                                            msg |-> "msg_intro_confirm"])),
                          params, <<>>, <<>>, <<>>)
        ELSE Outcome(intro_zip_gather(params, pp.campaign), params, <<>>, <<>>, <<>>)

\* lines 222-237
incoming_call(r, pick) ==
    LET pp == parse_params(r, pick)
    IN  IF pp.params = NoParams \/ ~pp.campaign.known
        THEN Aborted
        ELSE Outcome(intro_zip_gather(pp.params, pp.campaign), pp.params,
                     <<>>, <<>>, <<>>)

\* lines 240-266
zip_parse(r, pick) ==
    LET pp == parse_params(r, pick)
        params == pp.params
        zipcode == Get(r.values, "Digits", "")
        rep_ids == locate_member_ids(zipcode, pp.campaign)
    IN  IF pp.params = NoParams \/ ~pp.campaign.known
        THEN Aborted
        ELSE IF rep_ids = <<>>
        THEN Outcome(zip_gather(play_or_say(<<>>, "msg_invalid_zip", NoKwds),
                                params, pp.campaign),
                     params, <<>>, <<>>, <<>>)
        ELSE [make_calls(Put(Put(params, "zipcode", zipcode), "repIds", rep_ids),
                         pp.campaign)
                 EXCEPT !.params = pp.params]

\* ---------------------------------------------------------------- legs

\* the text of each representative id: the reserved marker and the stretches
\* of text around it ("{S}" is the JSON object of a special call's payload)
Marker == "SPECIAL_CALL_"

IdText ==
    [A |-> <<"A">>, B |-> <<"B">>, C |-> <<"C">>,
     SPECIAL_CALL_S  |-> <<Marker, "{S}">>,
     S_SPECIAL_CALL_ |-> <<"{S}", Marker>>]

\* line 281: "SPECIAL_CALL_" in repId
HasSpecialMarker(repId) == Marker \in Range(IdText[repId])

\* line 283: repId.replace("SPECIAL_CALL_", "")
without_marker(repId) == SelectSeq(IdText[repId], LAMBDA t : t # Marker)

\* line 283: json.loads(text); a text that is no JSON document raises ValueError
JsonDocument == [t \in {"{S}"} |-> [number |-> "+15550001111", name |-> "Jane"]]

json_loads(text) ==
    IF Len(text) = 1 /\ text[1] \in DOMAIN JsonDocument
    THEN [failed |-> FALSE, value |-> JsonDocument[text[1]]]
    ELSE [failed |-> TRUE]

\* phone and name of the roster entry with this bioguide_id
Legislator(repId) == [phone |-> "tel-" \o repId, name |-> "name-" \o repId]

\* resolve_rep choosing the voted-with intro whenever the campaign has a list
resolve_rep_any_voted(repId, campaign) ==
    IF HasSpecialMarker(repId)
    THEN LET special == json_loads(without_marker(repId))
         IN  IF special.failed
             THEN [failed |-> TRUE]
             ELSE [failed |-> FALSE,
                   to_phone |-> special.value.number,
                   full_name |-> special.value.name,
                   msg |-> Get(campaign, "msg_special_call_intro", "msg_rep_intro")]
    ELSE IF repId \notin Roster
    THEN [failed |-> TRUE]
    ELSE [failed |-> FALSE,
          to_phone |-> Legislator(repId).phone,
          full_name |-> Legislator(repId).name,
          msg |-> IF "voted_with_list" \in DOMAIN campaign
                  THEN "msg_repo_intro_voted_with"
                  ELSE "msg_rep_intro"]

\* lines 281-302: whom to dial for repId and which message introduces them;
\* failed when the roster has no such legislator ([...][0] on an empty list)
resolve_rep(repId, campaign) ==
    IF HasSpecialMarker(repId)
    THEN LET special == json_loads(without_marker(repId))
         IN  IF special.failed
             THEN [failed |-> TRUE]
             ELSE [failed |-> FALSE,
                   to_phone |-> special.value.number,
                   full_name |-> special.value.name,
                   msg |-> Get(campaign, "msg_special_call_intro", "msg_rep_intro")]
    ELSE IF repId \notin Roster
    THEN [failed |-> TRUE]
    ELSE [failed |-> FALSE,
          to_phone |-> Legislator(repId).phone,
          full_name |-> Legislator(repId).name,
          msg |-> IF "voted_with_list" \in DOMAIN campaign
                     /\ repId \in Range(campaign.voted_with_list)
                  THEN "msg_repo_intro_voted_with"
                  ELSE "msg_rep_intro"]

\* make_single_call with the dial action already pointing at the next index
make_single_call_advances(r, pick) ==
    LET pp == parse_params(r, pick)
        i == Get(r.values, "call_index", 0)
        params == Put(pp.params, "call_index", i)
        rep == resolve_rep(PyIndex(params.repIds, i), pp.campaign)
    IN  IF pp.params = NoParams \/ ~pp.campaign.known
        THEN Aborted
        ELSE IF ~InRange(params.repIds, i)
        THEN Outcome(Error500, pp.params, <<>>, <<>>, <<>>)
        ELSE IF rep.failed
        THEN Outcome(Error500, pp.params, <<>>, <<>>, <<>>)
        ELSE Outcome(Ok(Append(play_or_say(<<>>, rep.msg, [name |-> rep.full_name]),
                               [verb |-> "dial", to |-> rep.to_phone,
                                callerId |-> params.userPhone,
                                action |-> url_for("call_complete",
                                                  Put(params, "call_index", i + 1))])),
                     pp.params, <<>>, <<>>,
                     <<[st |-> "SingleCallIntro", i |-> i, ids |-> params.repIds]>>)

\* lines 269-313
make_single_call(r, pick) ==
    LET pp == parse_params(r, pick)
        i == Get(r.values, "call_index", 0)
        params == Put(pp.params, "call_index", i)
        rep == resolve_rep(PyIndex(params.repIds, i), pp.campaign)
    IN  IF pp.params = NoParams \/ ~pp.campaign.known
        THEN Aborted
        ELSE IF ~InRange(params.repIds, i)
        THEN Outcome(Error500, pp.params, <<>>, <<>>, <<>>)
        ELSE IF rep.failed
        THEN Outcome(Error500, pp.params, <<>>, <<>>, <<>>)
        ELSE Outcome(Ok(Append(play_or_say(<<>>, rep.msg, [name |-> rep.full_name]),
                               [verb |-> "dial", to |-> rep.to_phone,
                                callerId |-> params.userPhone,
                                action |-> url_for("call_complete", params)])),
                     pp.params, <<>>, <<>>,
                     <<[st |-> "SingleCallIntro", i |-> i, ids |-> params.repIds]>>)

\* models.log_call(params, campaign, request): the record of one leg
log_call(params, campaign, r) ==
    [campaign_id |-> campaign.id,
     repIds |-> params.repIds,
     call_index |-> Get(r.values, "call_index", 0),
     status |-> Get(r.values, "DialCallStatus", None)]

\* call_complete with log_call moved into the branch that redirects to the
\* next leg
call_complete_logs_between(r, pick) ==
    LET pp == parse_params(r, pick)
        params == pp.params
        i == Get(r.values, "call_index", 0)
        logged == <<log_call(params, pp.campaign, r)>>
        leg == [st |-> "CallLegComplete", i |-> i, ids |-> params.repIds]
    IN  IF pp.params = NoParams \/ ~pp.campaign.known
        THEN Aborted
        ELSE IF i = Len(params.repIds) - 1
        THEN Outcome(Ok(play_or_say(<<>>, "msg_final_thanks", NoKwds)),
                     params, <<>>, <<>>,
                     <<leg, [st |-> "Terminal"]>>)
        ELSE Outcome(Ok(Append(play_or_say(<<>>, "msg_between_thanks", NoKwds),
                               [verb |-> "redirect",
                                url |-> url_for("make_single_call",
                                                Put(params, "call_index", i + 1))])),
                     params, logged, <<>>,
                     <<leg>>)

\* lines 316-341
call_complete(r, pick) ==
    LET pp == parse_params(r, pick)
        params == pp.params
        i == Get(r.values, "call_index", 0)
        logged == <<log_call(params, pp.campaign, r)>>
        leg == [st |-> "CallLegComplete", i |-> i, ids |-> params.repIds]
    IN  IF pp.params = NoParams \/ ~pp.campaign.known
        THEN Aborted
        ELSE IF i = Len(params.repIds) - 1
        THEN Outcome(Ok(play_or_say(<<>>, "msg_final_thanks", NoKwds)),
                     params, logged, <<>>,
                     <<leg, [st |-> "Terminal"]>>)
        ELSE Outcome(Ok(Append(play_or_say(<<>>, "msg_between_thanks", NoKwds),
                               [verb |-> "redirect",
                                url |-> url_for("make_single_call",
                                                Put(params, "call_index", i + 1))])),
                     params, logged, <<>>,
                     <<leg>>)

\* lines 344-357
call_complete_status(r, pick) ==
    LET pp == parse_params(r, pick)
    IN  IF pp.params = NoParams
        THEN Aborted
        ELSE Outcome([status |-> 200, doc |-> <<>>,
                      json |-> [phoneNumber |-> Get(r.values, "To", ""),
                                callStatus |-> Get(r.values, "CallStatus", "unknown"),
                                repIds |-> pp.params.repIds,
                                campaignId |-> pp.params.campaignId]],
                     pp.params, <<>>, <<>>, <<>>)

\* ---------------------------------------------------------------- telephony provider

\* what the caller can key into a gather of numDigits digits
DigitsFor(numDigits) == IF numDigits = 5 THEN {"Z0", "Z1", "Z2"} ELSE {"1"}

\* how a bridged leg can end
DialStatuses == {"completed", "no-answer"}

WithValue(url, key, value) == [url EXCEPT !.values = Put(url.values, key, value)]

\* the requests the provider can make next when it executes an instruction
\* document: a gather that gets digits requests its action, one that times
\* out falls through to the next verb; a redirect requests its url; a dial
\* requests its action when the leg ends; the end of the document ends the call
RECURSIVE Continuations(_)
Continuations(doc) ==
    IF doc = <<>> THEN {NoReq}
    ELSE LET v == Head(doc)
         IN  CASE v.verb = "say" -> Continuations(Tail(doc))
               [] v.verb = "gather" ->
                    {WithValue(v.action, "Digits", d) : d \in DigitsFor(v.numDigits)}
                        \cup Continuations(Tail(doc))
               [] v.verb = "redirect" -> {v.url}
               [] v.verb = "dial" ->
                    {WithValue(v.action, "DialCallStatus", st) : st \in DialStatuses}

\* what calls.create can do: a call with a status, or a rejection whose
\* error text is "E: n :d" or, without any colon, "E"
ProviderOutcomes ==
    {[status |-> "queued"], [status |-> "failed"],
     [err |-> <<"E", ":", " ", "n", " ", ":", "d">>],
     [err |-> <<"E">>]}

\* the request the provider makes once an outbound call is placed and
\* answered: the call's url; none when the call never connects
AfterCreate(out) ==
    IF out.calls # <<>> /\ "status" \in DOMAIN out.calls[1].outcome
       /\ out.calls[1].outcome.status # "failed"
    THEN {out.calls[1].url, NoReq}
    ELSE {NoReq}

\* ---------------------------------------------------------------- requests from outside

ClientCampaignIds == {None, "zzz"} \cup CampaignIds
ClientZipcodes == {None, "", "Z0", "Z2"}
ClientIndexes == (-1) .. MaxIndex

BaseKwds ==
    [userPhone : {None, "U"}, campaignId : ClientCampaignIds,
     zipcode : ClientZipcodes, repIds : SeqsUpTo(RepIdUniverse, MaxReps)]

EntryRequests ==
    {url_for(route, k) :
        route \in {"create", "connection", "incoming_call", "make_calls",
                   "call_complete_status", "make_single_call", "call_complete",
                   "zip_parse"},
        k \in BaseKwds}
    \cup {url_for(route, Put(k, "call_index", i)) :
        route \in {"make_single_call", "call_complete"},
        k \in BaseKwds, i \in ClientIndexes}
    \cup {url_for("zip_parse", Put(k, "Digits", d)) :
        k \in BaseKwds, d \in DigitsFor(5)}

\* ---------------------------------------------------------------- the state machine

Init ==
    /\ req \in EntryRequests
    /\ entry = TRUE
    /\ resp = NoResp
    /\ handled = NoReq
    /\ parsed = NoParams
    /\ resolved = FALSE
    /\ log = <<>>
    /\ placed = <<>>
    /\ hist = <<>>
    /\ reprompts = 0
    /\ directory = Campaigns
    /\ others = 0

\* the campaign the request names is in the directory
KnownCampaign(r) == get_campaign(request_params(r).campaignId).known

\* handling r resolves representative ids from a zip code: parse_params from
\* the zipcode value (lines 88-90), zip_parse from the digits (lines 251-264)
ResolvesIds(r) ==
    /\ KnownCampaign(r)
    /\ \/ Truthy(request_params(r).zipcode)
       \/ /\ r.route = "zip_parse"
          /\ locate_member_ids(Get(r.values, "Digits", ""),
                                get_campaign(request_params(r).campaignId)) # <<>>

\* parse_params storing the repIds it derived in the campaign definition
campaigns_after_cached(params) ==
    IF params # NoParams /\ params.campaignId \in DOMAIN directory
    THEN [directory EXCEPT ![params.campaignId] =
                               Put(@, "repIds", [list |-> params.repIds])]
    ELSE directory

\* the campaign definitions after a handler ran with these params: the
\* handlers read the campaign (lines 80-98, 205, 250-251, 281-302) and assign
\* only into params, so the definitions are what they were
campaigns_after(params) == directory

\* the handler's outcome becomes the state; nxt is the provider's next request
Respond(out, nxt) ==
    /\ handled' = req
    /\ resolved' = (resolved \/ ResolvesIds(req))
    /\ resp' = out.resp
    /\ parsed' = out.params
    /\ log' = log \o out.logged
    /\ placed' = placed \o out.calls
    /\ hist' = hist \o out.events
    /\ entry' = FALSE
    /\ req' = nxt
    /\ directory' = campaigns_after(out.params)
    /\ UNCHANGED others

Create ==
    /\ req.route = "create"
    /\ \E pick \in PicksFor(req), provider \in ProviderOutcomes :
         LET out == call_user(req, pick, provider)
         IN  \E nxt \in AfterCreate(out) : Respond(out, nxt)
    /\ UNCHANGED reprompts

Connection ==
    /\ req.route = "connection"
    /\ \E pick \in PicksFor(req) :
         LET out == connection(req, pick)
         IN  \E nxt \in Continuations(out.resp.doc) : Respond(out, nxt)
    /\ UNCHANGED reprompts

IncomingCall ==
    /\ req.route = "incoming_call"
    /\ \E pick \in PicksFor(req) :
         LET out == incoming_call(req, pick)
         IN  \E nxt \in Continuations(out.resp.doc) : Respond(out, nxt)
    /\ UNCHANGED reprompts

IsReprompt(response) ==
    /\ Len(response.doc) = 2
    /\ response.doc[1].verb = "say"
    /\ response.doc[1].msg = "msg_invalid_zip"

ZipParse ==
    /\ req.route = "zip_parse"
    /\ \E pick \in PicksFor(req) :
         LET out == zip_parse(req, pick)
         IN  /\ \E nxt \in Continuations(out.resp.doc) : Respond(out, nxt)
             /\ reprompts' = IF IsReprompt(out.resp) /\ reprompts < MaxReprompts
                             THEN reprompts + 1
                             ELSE reprompts

MakeCalls ==
    /\ req.route = "make_calls"
    /\ \E pick \in PicksFor(req) :
         LET out == handle_make_calls(req, pick)
         IN  \E nxt \in Continuations(out.resp.doc) : Respond(out, nxt)
    /\ UNCHANGED reprompts

MakeSingleCall ==
    /\ req.route = "make_single_call"
    /\ \E pick \in PicksFor(req) :
         LET out == make_single_call(req, pick)
         IN  \E nxt \in Continuations(out.resp.doc) : Respond(out, nxt)
    /\ UNCHANGED reprompts

CallComplete ==
    /\ req.route = "call_complete"
    /\ \E pick \in PicksFor(req) :
         LET out == call_complete(req, pick)
         IN  \E nxt \in Continuations(out.resp.doc) : Respond(out, nxt)
    /\ UNCHANGED reprompts

CallCompleteStatus ==
    /\ req.route = "call_complete_status"
    /\ \E pick \in PicksFor(req) :
         LET out == call_complete_status(req, pick)
         IN  \E nxt \in Continuations(out.resp.doc) : Respond(out, nxt)
    /\ UNCHANGED reprompts

\* the caller hangs up before the provider makes its next request
Hangup ==
    /\ req # NoReq
    /\ ~entry
    /\ req' = NoReq
    /\ UNCHANGED <<entry, handled, resp, parsed, resolved, log, placed, hist,
                   reprompts, directory, others>>

Next ==
    \/ Create
    \/ Connection
    \/ IncomingCall
    \/ ZipParse
    \/ MakeCalls
    \/ MakeSingleCall
    \/ CallComplete
    \/ CallCompleteStatus
    \/ Hangup

Spec == Init /\ [][Next]_vars

\* ---------------------------------------------------------------- two calls

\* the handler the application routes a provider webhook to
handle(r, pick) ==
    CASE r.route = "connection" -> connection(r, pick)
      [] r.route = "incoming_call" -> incoming_call(r, pick)
      [] r.route = "zip_parse" -> zip_parse(r, pick)
      [] r.route = "make_calls" -> handle_make_calls(r, pick)
      [] r.route = "make_single_call" -> make_single_call(r, pick)
      [] r.route = "call_complete" -> call_complete(r, pick)
      [] r.route = "call_complete_status" -> call_complete_status(r, pick)

\* webhooks of another call, of user V, in a campaign without and in one with
\* fixed repIds
OtherRequests ==
    {url_for(route, [campaignId |-> c, userPhone |-> "V", repIds |-> <<"C">>,
                     call_index |-> 0, DialCallStatus |-> "completed"]) :
        route \in {"make_single_call", "call_complete"}, c \in {"default", "fixedL"}}

\* the application handles a webhook of the other call between two webhooks
\* of this one: what it does to the state the two calls share
OtherCallWebhook ==
    /\ others < MaxOtherWebhooks
    /\ \E r \in OtherRequests : \E pick \in PicksFor(r) :
         LET out == handle(r, pick)
         IN  /\ log' = log \o out.logged
             /\ directory' = campaigns_after(out.params)
    /\ others' = others + 1
    /\ UNCHANGED <<req, entry, handled, resp, parsed, resolved, placed, hist, reprompts>>

\* this call starts where the provider starts a call, for user U
InitShared ==
    /\ Init
    /\ req.route \in {"connection", "incoming_call"}
    /\ Get(req.values, "userPhone", None) = "U"

NextShared ==
    \/ Connection
    \/ IncomingCall
    \/ ZipParse
    \/ MakeCalls
    \/ MakeSingleCall
    \/ CallComplete
    \/ Hangup
    \/ OtherCallWebhook

SpecShared == InitShared /\ [][NextShared]_vars

\* ---------------------------------------------------------------- properties

IsPrefix(s, t) == Len(s) <= Len(t) /\ \A k \in 1..Len(s) : s[k] = t[k]

\* the call-flow states of a call of n legs, from the block intro on
RECURSIVE LegStates(_, _)
LegStates(i, n) ==
    IF i >= n THEN <<[st |-> "Terminal"]>>
    ELSE <<[st |-> "SingleCallIntro", i |-> i], [st |-> "CallLegComplete", i |-> i]>>
             \o LegStates(i + 1, n)

ExpectedLegs(n) == <<[st |-> "CallBlockIntro", n |-> n]>> \o LegStates(0, n)

\* the call-flow states visited, without the repIds each handler worked on
Visits == [k \in 1..Len(hist) |-> [f \in DOMAIN hist[k] \ {"ids"} |-> hist[k][f]]]

\* the continuation URLs of a response: gather and dial actions, redirects
EmittedUrls(response) ==
    {response.doc[k].action :
        k \in {j \in 1..Len(response.doc) : response.doc[j].verb \in {"gather", "dial"}}}
    \cup {response.doc[k].url :
        k \in {j \in 1..Len(response.doc) : response.doc[j].verb = "redirect"}}

\* the URLs handed to the provider with each outbound call
PlacedUrls ==
    {placed[k].url : k \in 1..Len(placed)}
        \cup {placed[k].status_callback : k \in 1..Len(placed)}

\* C1: a call that enters CallBlockIntro with a sequence of n >= 1
\* representative ids visits SingleCallIntro(0), CallLegComplete(0), ...,
\* SingleCallIntro(n-1), CallLegComplete(n-1), Terminal in that order, each
\* leg once, none skipped: the states visited so far are always a prefix of
\* that sequence.
C1_LegSequence ==
    (hist # <<>> /\ hist[1].st = "CallBlockIntro" /\ hist[1].n >= 1)
        => IsPrefix(Visits, ExpectedLegs(hist[1].n))

\* C2: whenever make_single_call or call_complete has processed a leg, the
\* index it processed and the index of every callback URL it emitted lie in
\* 0 .. len(repIds)-1 for the repIds parse_params gave that handler.
C2_IndexInRange ==
    (handled.route \in {"make_single_call", "call_complete"} /\ parsed # NoParams)
        => /\ 0 <= Get(handled.values, "call_index", 0)
           /\ Get(handled.values, "call_index", 0) < Len(parsed.repIds)
           /\ \A u \in EmittedUrls(resp) :
                0 <= u.values.call_index /\ u.values.call_index < Len(parsed.repIds)

\* C3: once representative ids have been resolved from a zip code, no
\* continuation URL a handler emits carries a zipcode parameter.
C3_NoZipcodeForward ==
    resolved => \A u \in EmittedUrls(resp) \cup PlacedUrls :
                    "zipcode" \notin DOMAIN u.values

\* C4: a request whose campaignId the directory does not know is aborted
\* with not-found by whichever handler receives it: parse_params gives
\* (None, None), no instruction document is emitted, no call is placed, no
\* record is logged, and the provider is given nothing to continue with.
C4_UnknownCampaignAborts ==
    [][(req # NoReq /\ ~KnownCampaign(req))
         => /\ resp' = Abort404
            /\ parsed' = NoParams
            /\ log' = log
            /\ placed' = placed
            /\ hist' = hist
            /\ req' = NoReq]_vars

C4_Witness ==
    /\ handled.route = "call_complete"
    /\ ~KnownCampaign(handled)
    /\ resp = Abort404
    /\ log = <<>>

\* a required parameter of the handled request is absent
LacksRequired(r) ==
    \/ r.route = "create" /\ "userPhone" \notin DOMAIN r.values
    \/ r.route # "none" /\ "campaignId" \notin DOMAIN r.values

\* C5: every request that lacks a required parameter (userPhone or
\* campaignId for /create, campaignId for the other webhooks) is aborted with
\* 404, and places no outbound call.
C5_MissingParamAborts ==
    (handled # NoReq /\ LacksRequired(handled))
        => resp.status = 404 /\ placed = <<>>

\* C6: when CallBlockIntro is entered with an empty repIds sequence the
\* handler aborts with not-found and emits no redirect to make_single_call.
C6_EmptyRepIdsAborts ==
    (hist # <<>> /\ hist[Len(hist)].st = "CallBlockIntro" /\ hist[Len(hist)].n = 0)
        => resp.status = 404 /\ EmittedUrls(resp) = {}

\* the campaign of the handled request
HandledCampaign == get_campaign(request_params(handled).campaignId)

\* C7 as stated: for every request that supplies a zipcode (a value line 88
\* finds true) and every known campaign, the parsed params hold no zipcode key
\* and their repIds are the resolver's output for that zip code and campaign.
C7_ZipReplaces_Original ==
    (/\ handled # NoReq
     /\ KnownCampaign(handled)
     /\ "zipcode" \in DOMAIN handled.values
     /\ handled.values.zipcode # "")
        => /\ "zipcode" \notin DOMAIN parsed
           /\ parsed.repIds = locate_member_ids(handled.values.zipcode, HandledCampaign)

\* C7: for every request that supplies a non-empty zipcode and every known
\* campaign without a random_choice pool, the parsed params hold no zipcode
\* key and their repIds are the resolver's output for that zip code and
\* campaign, whatever repIds the client or the campaign supplied.
C7_ZipReplaces ==
    (/\ handled # NoReq
     /\ KnownCampaign(handled)
     /\ "zipcode" \in DOMAIN handled.values
     /\ handled.values.zipcode # ""
     /\ "random_choice" \notin DOMAIN HandledCampaign)
        => /\ "zipcode" \notin DOMAIN parsed
           /\ parsed.repIds = locate_member_ids(handled.values.zipcode, HandledCampaign)

C7_Witness ==
    /\ handled # NoReq
    /\ request_params(handled).campaignId = "fixed1"
    /\ Get(handled.values, "zipcode", None) = "Z2"
    /\ GetList(handled.values, "repIds") = <<"A", "B">>
    /\ parsed.repIds = <<"B", "C">>
    /\ "zipcode" \notin DOMAIN parsed

\* the campaign's fixed repIds as a list
NormalizedRepIds(campaign) ==
    IF "str" \in DOMAIN campaign.repIds
    THEN <<campaign.repIds.str>>
    ELSE campaign.repIds.list

\* C8 as stated: for every campaign with fixed repIds and every request that
\* supplies no repIds, the parsed repIds are the campaign's value as a list.
C8_FixedRepIds_Original ==
    (/\ handled # NoReq
     /\ KnownCampaign(handled)
     /\ HasFixedRepIds(HandledCampaign)
     /\ "repIds" \notin DOMAIN handled.values)
        => parsed.repIds = NormalizedRepIds(HandledCampaign)

\* C8: for every campaign with fixed repIds and no random_choice pool, and
\* every request that supplies no repIds and no non-empty zipcode, the parsed
\* repIds are the campaign's value as a list (a scalar id as a one-element
\* list, a list in its order).
C8_FixedRepIds ==
    (/\ handled # NoReq
     /\ KnownCampaign(handled)
     /\ HasFixedRepIds(HandledCampaign)
     /\ "random_choice" \notin DOMAIN HandledCampaign
     /\ "repIds" \notin DOMAIN handled.values
     /\ ~Truthy(Get(handled.values, "zipcode", None)))
        => parsed.repIds = NormalizedRepIds(HandledCampaign)

C8_Witness ==
    /\ handled # NoReq
    /\ request_params(handled).campaignId = "fixed1"
    /\ "repIds" \notin DOMAIN handled.values
    /\ "zipcode" \notin DOMAIN handled.values
    /\ parsed.repIds = <<"A">>

\* C9: for a campaign with a random_choice pool, every parse gives repIds of
\* exactly one element, a member of the pool, whatever repIds or zipcode the
\* request carries and whatever repIds the campaign fixes.
C9_RandomChoice ==
    (handled # NoReq /\ KnownCampaign(handled)
     /\ "random_choice" \in DOMAIN HandledCampaign)
        => /\ Len(parsed.repIds) = 1
           /\ parsed.repIds[1] \in Range(HandledCampaign.random_choice)

\* a later hop of one call draws another element than the hop before it
C9_Witness ==
    /\ handled.route = "call_complete"
    /\ request_params(handled).campaignId = "random"
    /\ GetList(handled.values, "repIds") = <<"A">>
    /\ parsed.repIds = <<"C">>
    /\ Len(hist) >= 3
    /\ hist[1].st = "CallBlockIntro"

\* the digits of a zip_parse request resolve to no representative
ZipInvalid(r) ==
    /\ r.route = "zip_parse"
    /\ KnownCampaign(r)
    /\ locate_member_ids(Get(r.values, "Digits", ""),
                         get_campaign(request_params(r).campaignId)) = <<>>

\* C10: when zip_parse, for a known campaign, gets digits that are empty or
\* resolve to nobody, it emits the invalid-zip message and a 5-digit gather whose action is
\* zip_parse again, with no redirect, no dial and no call index; it logs
\* nothing and enters no leg; the provider's next request, if any, is
\* zip_parse again.
C10_InvalidZipReprompts ==
    [][(ZipInvalid(req) /\ ~Hangup)
         => /\ resp'.status = 200
            /\ Len(resp'.doc) = 2
            /\ resp'.doc[1].verb = "say"
            /\ resp'.doc[1].msg = "msg_invalid_zip"
            /\ resp'.doc[2].verb = "gather"
            /\ resp'.doc[2].numDigits = 5
            /\ resp'.doc[2].action.route = "zip_parse"
            /\ "call_index" \notin DOMAIN resp'.doc[2].action.values
            /\ log' = log
            /\ hist' = hist
            /\ placed' = placed
            /\ \/ req' = NoReq
               \/ req'.route = "zip_parse" /\ "call_index" \notin DOMAIN req'.values]_vars

\* the re-prompt has been emitted MaxReprompts times and zip_parse is asked again
C10_Witness ==
    /\ handled.route = "zip_parse"
    /\ IsReprompt(resp)
    /\ reprompts = MaxReprompts
    /\ req.route = "zip_parse"

\* what calls.create did for the /create request handled last
CreateOutcome == placed[Len(placed)].outcome

CreateHandled ==
    /\ handled.route = "create"
    /\ KnownCampaign(handled)
    /\ placed # <<>>

\* C11: for /create with a known campaign, a call whose status is
\* 'failed' gives HTTP 500 with that status as message, any other status
\* gives HTTP 200 with that status as message, and a rejection by exception
\* gives HTTP 200 with the first colon-delimited segment of the error text.
C11_CreateResponse ==
    CreateHandled
        => IF "status" \in DOMAIN CreateOutcome
           THEN /\ resp.status = IF CreateOutcome.status = "failed" THEN 500 ELSE 200
                /\ resp.json.message = CreateOutcome.status
           ELSE /\ resp.status = 200
                /\ resp.json.message = Split(CreateOutcome.err, ":")[1]

\* the events of one call-flow state among those visited
EventsOf(st) == SelectSeq(hist, LAMBDA e : e.st = st)

\* the call started at the block intro or at a leg's intro, not at a callback
StartedBeforeLeg ==
    hist # <<>> /\ hist[1].st \in {"CallBlockIntro", "SingleCallIntro"}

\* C12: log_call is invoked exactly once per completed leg: the log holds one
\* record for each CallLegComplete(i) visited, in order and with that leg's
\* index and repIds, and nothing else (no other handler writes a record); the
\* record of leg i is written before the intro of the next leg is emitted, so
\* a call that has run n legs to Terminal has written exactly n records.
C12_OneRecordPerLeg ==
    LET legs  == EventsOf("CallLegComplete")
        dials == EventsOf("SingleCallIntro")
    IN  /\ Len(log) = Len(legs)
        /\ \A k \in 1..Len(log) :
              /\ log[k].call_index = legs[k].i
              /\ log[k].repIds = legs[k].ids
        /\ StartedBeforeLeg => Len(dials) - Len(log) \in {0, 1}
        /\ (StartedBeforeLeg /\ hist[Len(hist)].st = "Terminal")
              => Len(log) = Len(dials)

\* two legs were dialed and completed, the call is over, two records written
C12_Witness ==
    /\ StartedBeforeLeg
    /\ hist[Len(hist)].st = "Terminal"
    /\ Len(EventsOf("SingleCallIntro")) = 2
    /\ Len(log) = 2
    /\ log[1].call_index = 0
    /\ log[2].call_index = 1

\* the index the handled request carried (0 when it carried none)
HandledIndex == Get(handled.values, "call_index", 0)

\* C13: the leg index advances only through the completion callback:
\* make_single_call(i) emits a dial whose action is call_complete with the
\* same index i and no other continuation; call_complete(i) emits no
\* continuation but make_single_call with index i+1; every other handler
\* emits an index only as the initial 0; and call_complete's answer is the
\* same for every DialCallStatus the leg can end with.
C13_IndexAdvance ==
    /\ (handled.route = "make_single_call" /\ resp.status = 200)
          => /\ \E k \in 1..Len(resp.doc) : resp.doc[k].verb = "dial"
             /\ \A k \in 1..Len(resp.doc) : resp.doc[k].verb \in {"say", "dial"}
             /\ \A u \in EmittedUrls(resp) :
                   u.route = "call_complete" /\ u.values.call_index = HandledIndex
    /\ handled.route = "call_complete"
          => /\ \A u \in EmittedUrls(resp) :
                   u.route = "make_single_call" /\ u.values.call_index = HandledIndex + 1
             /\ \A st \in DialStatuses :
                   \E pick \in PicksFor(handled) :
                       call_complete(WithValue(handled, "DialCallStatus", st), pick).resp = resp
    /\ handled.route \in {"create", "connection", "incoming_call", "zip_parse",
                          "make_calls", "call_complete_status"}
          => \A u \in EmittedUrls(resp) \cup PlacedUrls :
                "call_index" \in DOMAIN u.values
                    => u.route = "make_single_call" /\ u.values.call_index = 0

\* leg 0 ended unanswered and call_complete moved the call on to leg 1
C13_Witness ==
    /\ handled.route = "call_complete"
    /\ HandledIndex = 0
    /\ Get(handled.values, "DialCallStatus", None) = "no-answer"
    /\ req.route = "make_single_call"
    /\ req.values.call_index = 1
    /\ Len(hist) >= 2
    /\ hist[Len(hist) - 1].st = "SingleCallIntro"

\* C14: /connection with a known campaign: with empty parsed repIds it emits
\* the intro and the zip-collection prompt; with non-empty repIds and
\* skip_star_confirm unset it emits the intro and a one-digit gather whose
\* action is make_calls, so CallBlockIntro is requested only with a submitted
\* digit (a timeout requests nothing); with non-empty repIds and
\* skip_star_confirm set it emits the intro and a redirect to make_calls,
\* without any gather.
C14_ConnectionBranches ==
    (handled.route = "connection" /\ KnownCampaign(handled))
        => /\ resp.status = 200
           /\ Len(resp.doc) = 2
           /\ resp.doc[1] = [verb |-> "say", msg |-> "msg_intro", kwds |-> NoKwds]
           /\ IF parsed.repIds = <<>>
              THEN /\ resp.doc[2].verb = "gather"
                   /\ resp.doc[2].numDigits = 5
                   /\ resp.doc[2].action.route = "zip_parse"
                   /\ req.route \in {"none", "zip_parse"}
              ELSE IF ~Get(HandledCampaign, "skip_star_confirm", FALSE)
              THEN /\ resp.doc[2].verb = "gather"
                   /\ resp.doc[2].numDigits = 1
                   /\ resp.doc[2].action = url_for("make_calls", parsed)
                   /\ req.route \in {"none", "make_calls"}
                   /\ req.route = "make_calls" => "Digits" \in DOMAIN req.values
              ELSE /\ resp.doc[2] = [verb |-> "redirect",
                                     url |-> url_for("make_calls", parsed)]
                   /\ req.route \in {"none", "make_calls"}
                   /\ req.route = "make_calls" => "Digits" \notin DOMAIN req.values

\* the confirmation digit was submitted and make_calls is requested with it
C14_Witness ==
    /\ handled.route = "connection"
    /\ KnownCampaign(handled)
    /\ parsed.repIds # <<>>
    /\ resp.doc[2].verb = "gather"
    /\ req.route = "make_calls"
    /\ "Digits" \in DOMAIN req.values

\* the id carries the marker at its start
StartsWithMarker(repId) == Head(IdText[repId]) = Marker

\* the id make_single_call worked on, and the verbs it emitted
HandledRepId == PyIndex(parsed.repIds, HandledIndex)
SayVerb == resp.doc[1]
DialVerb == resp.doc[Len(resp.doc)]

LegHandled ==
    /\ handled.route = "make_single_call"
    /\ KnownCampaign(handled)
    /\ InRange(parsed.repIds, HandledIndex)

\* C15: at SingleCallIntro(i), repIds[i] is handled as a special call exactly
\* when it carries the SPECIAL_CALL_ marker as a prefix: then the number dialed
\* and the name spoken are decoded from the payload after the marker, without
\* a roster lookup, and the message is the campaign's special-call intro if it
\* defines one and the normal rep-intro otherwise; an id without the prefix is
\* looked up in the roster.
C15_SpecialCall ==
    LegHandled
        => IF StartsWithMarker(HandledRepId)
           THEN LET payload == JsonDocument[IdText[HandledRepId][2]]
                IN  /\ resp.status = 200
                    /\ DialVerb.to = payload.number
                    /\ SayVerb.kwds = [name |-> payload.name]
                    /\ SayVerb.msg = IF "msg_special_call_intro" \in DOMAIN HandledCampaign
                                     THEN "msg_special_call_intro"
                                     ELSE "msg_rep_intro"
           ELSE resp.status = 200
                   => /\ HandledRepId \in Roster
                      /\ DialVerb.to = Legislator(HandledRepId).phone

Leg0Entries ==
    {k \in 1..Len(hist) : hist[k].st = "SingleCallIntro" /\ hist[k].i = 0}

\* the legs dialed from position k of the history on
LegsDialedFrom(k) ==
    Cardinality({j \in k..Len(hist) : hist[j].st = "SingleCallIntro"})

\* C18: a call that has entered SingleCallIntro(0) with a non-empty repIds
\* sequence runs on to Terminal or an abort without ever dialing more legs
\* than that sequence has ids: at every moment the legs dialed from
\* SingleCallIntro(0) on are at most len(repIds).
C18_LegsBounded ==
    \A k \in Leg0Entries : LegsDialedFrom(k) <= Len(hist[k].ids)

\* the call entered the block intro first
StartedAtBlockIntro == hist # <<>> /\ hist[1].st = "CallBlockIntro"

\* C19: within one call, the repIds sequence parse_params derives is the same
\* at every hop from CallBlockIntro to Terminal: make_single_call(i) and
\* call_complete(i) work on the sequence make_calls announced, for every
\* campaign configuration and for calls that entered a zip code.
C19_SameRepIds ==
    StartedAtBlockIntro
        => \A k \in 1..Len(hist) :
              "ids" \in DOMAIN hist[k] => hist[k].ids = hist[1].ids

\* C20: for every call that reaches Terminal, the n_reps announced at
\* CallBlockIntro equals the number of legs make_single_call dialed before
\* the final thanks.
C20_AnnouncedEqualsDialed ==
    (StartedAtBlockIntro /\ hist[Len(hist)].st = "Terminal")
        => hist[1].n = Len(EventsOf("SingleCallIntro"))

====
